---- MODULE Spec2Model ----
(***************************************************************************)
(* The webhook handler of app.py (call routing core) together with the     *)
(* write side of analytics_db.py (event store), as a state machine.        *)
(*                                                                         *)
(* A delivery is one HTTP POST /webhook.  Its handler runs as a sequence   *)
(* of steps; every step holds at most one access to state shared between   *)
(* deliveries (ROUTED_CALLS, ENDED_CALLS, the SQLite store, the provider). *)
(* Spec runs the deliveries one after another over every request shape;    *)
(* SpecThreaded lets the handlers of several deliveries interleave, as the *)
(* threaded WSGI host does; SpecExtract handles one call.gather.ended      *)
(* delivery over every shape of its digit locations.                       *)
(***************************************************************************)
EXTENDS Integers, Sequences, FiniteSets, TLC

\* ---------------------------------------------------------------- bounds
\* Deliveries accepted in one process lifetime.
MaxDeliveries == 2

\* ------------------------------------------------------- python values
\* Python's None, among values that are otherwise strings of the model.
None == "None"

\* A python str whose characters matter (a digit field) is a sequence of
\* one-character strings; EmptyStr is "".
EmptyStr == <<>>
Whitespace == {" ", "\t", "\n", "\r"}

\* A JSON value found at a digit location of the payload, or the lack of one.
Absent == [t |-> "absent"]
JNull == [t |-> "null"]
JStr(s) == [t |-> "str", s |-> s]
JDict(digits, digit) == [t |-> "dict", digits |-> digits, digit |-> digit]

\* dict.get(key): a missing key reads as None.
Get(v) == IF v.t = "absent" THEN JNull ELSE v

\* Python truthiness: None, "" and {} are false.
Truthy(v) ==
    CASE v.t = "str" -> v.s # EmptyStr
      [] v.t = "dict" -> v.digits.t # "absent" \/ v.digit.t # "absent"
      [] OTHER -> FALSE

\* Python's `a or b`.
Or(a, b) == IF Truthy(a) THEN a ELSE b

\* str.strip(): leading and trailing whitespace removed.
RECURSIVE LStrip(_)
LStrip(s) == IF s # <<>> /\ Head(s) \in Whitespace THEN LStrip(Tail(s)) ELSE s
RECURSIVE RStrip(_)
RStrip(s) ==
    IF s # <<>> /\ s[Len(s)] \in Whitespace THEN RStrip(SubSeq(s, 1, Len(s) - 1)) ELSE s
Strip(s) == RStrip(LStrip(s))

\* str(v) of a value that is a str here (the only truthy scalars of the model).
PyStr(v) == IF v.t = "str" THEN v.s ELSE EmptyStr

\* ------------------------------------------------------ configuration
DEPARTMENT_URIS(dept) ==
    CASE dept = "sales" -> "sip:agent1@sip.telnyx.com"
      [] dept = "support" -> "sip:agent2@sip.telnyx.com"
      [] dept = "porting" -> "sip:agent3@sip.telnyx.com"

\* DIGIT_TO_DEPARTMENT.get(digit or ""): None for a digit that is no key.
DIGIT_TO_DEPARTMENT_Swapped(digit) ==
    CASE digit = <<"1">> -> "support"
      [] digit = <<"2">> -> "sales"
      [] digit = <<"3">> -> "porting"
      [] OTHER -> None
DIGIT_TO_DEPARTMENT(digit) ==
    CASE digit = <<"1">> -> "sales"
      [] digit = <<"2">> -> "support"
      [] digit = <<"3">> -> "porting"
      [] OTHER -> None

\* The digit of a gather payload.
_extract_digits(ev) ==
    LET d == Or(Get(ev.digit), Get(ev.digits))
    IN  IF Truthy(d)
        THEN Strip(PyStr(d))
        ELSE LET res == Or(Or(Get(ev.result), Get(ev.dtmf)), JDict(Absent, Absent))
             IN  IF res.t = "dict"
                 THEN Strip(PyStr(Or(Or(Get(res.digits), Get(res.digit)), JStr(EmptyStr))))
                 ELSE EmptyStr

\* ------------------------------------------------------------ requests
CallIds == {"c1", "c2"}

\* A gather payload's digit locations.
Digits(digit, digits, result, dtmf) ==
    [digit |-> digit, digits |-> digits, result |-> result, dtmf |-> dtmf]
NoDigits == Digits(Absent, Absent, Absent, Absent)
TopDigit(s) == Digits(Absent, JStr(s), Absent, Absent)

\* A request body: `body` is what request.get_json(silent=True) yields
\* ("missing": None or another false value, "scalar": a true value that is no
\* object, "object"), `data` and `ev` likewise for the "data" and "payload" keys.
Request(body, data, etype, ev, ccid, from, fields) ==
    [body |-> body, data |-> data, etype |-> etype, ev |-> ev,
     ccid |-> ccid, from |-> from, to |-> "+1800", fields |-> fields]
Event(etype, ccid, from, fields) ==
    Request("object", "object", etype, "object", ccid, from, fields)

\* The digit payloads delivered: each menu key, a key off the menu and a timeout
\* (no digit).
GatherPayloads ==
    {TopDigit(<<"1">>), TopDigit(<<"2">>), TopDigit(<<"3">>), TopDigit(<<"9">>), NoDigits}

EventTypes == {"call.initiated", "call.gather.ended", "call.hangup", "call.answered"}

\* Well-formed events, with or without a call id.
Events ==
    {Event("call.initiated", c, f, NoDigits) : c \in CallIds, f \in {"+1555", None}}
    \cup {Event("call.initiated", c, "+1555", NoDigits) : c \in {None, ""}}
    \cup {Event("call.gather.ended", c, None, p) : c \in CallIds, p \in GatherPayloads}
    \cup {Event("call.gather.ended", None, None, TopDigit(<<"1">>))}
    \cup {Event(e, c, None, NoDigits) : e \in {"call.hangup", "call.answered"}, c \in CallIds \cup {None}}
    \cup {Event(None, "c1", None, NoDigits)}

\* Bodies that are not the documented shape: no JSON body, a body or a "data"
\* that is no object, no "data", and a "payload" that is no object.
Malformed ==
    {Request("missing", "absent", None, "absent", None, None, NoDigits),
     Request("scalar", "absent", None, "absent", None, None, NoDigits),
     Request("object", "absent", None, "absent", None, None, NoDigits),
     Request("object", "scalar", None, "absent", None, None, NoDigits)}
    \cup {Request("object", "object", e, "scalar", None, None, NoDigits) :
            e \in EventTypes \cup {None}}

Requests == Events \cup Malformed

\* The events delivered while other handlers run: the two event types whose
\* handlers read or write the routing sets.
ThreadedRequests ==
    {Event("call.gather.ended", c, None, p) : c \in CallIds, p \in {TopDigit(<<"1">>), TopDigit(<<"9">>)}}
    \cup {Event("call.hangup", c, None, NoDigits) : c \in CallIds}

\* The payload shapes of the digit locations: at "digit" and "digits" nothing,
\* null, "", a blank, a digit, a digit between blanks; at "result" and "dtmf"
\* nothing, null, a value that is no object, an empty object and objects with
\* one or both of "digits" and "digit".
TopValues ==
    {Absent, JNull, JStr(EmptyStr), JStr(<<" ">>), JStr(<<"1">>), JStr(<<" ", "2", " ">>)}
NestedValues ==
    {Absent, JNull, JStr(<<"x">>), JDict(Absent, Absent),
     JDict(JStr(<<"3">>), Absent), JDict(Absent, JStr(<<"2">>)),
     JDict(JStr(EmptyStr), JStr(<<"1">>)), JDict(JStr(<<" ">>), Absent)}
ExtractPayloads ==
    {Digits(a, b, c, e) : a \in TopValues, b \in TopValues,
                          c \in NestedValues, e \in NestedValues}

\* --------------------------------------------------------------- state
VARIABLES
    ROUTED_CALLS,       \* app.py: call ids whose transfer succeeded
    ENDED_CALLS,        \* app.py: call ids whose hangup was seen
    db,                 \* the store's file: "absent", "ready" or "broken"
    calls,              \* table calls
    call_events,        \* table call_events
    ivr_interactions,   \* table ivr_interactions
    transfers,          \* table transfers
    commands,           \* the provider commands sent, in order
    clock,              \* deliveries accepted so far; also the store's time
    inflight            \* the deliveries being handled: id -> handler frame

vars == <<ROUTED_CALLS, ENDED_CALLS, db, calls, call_events, ivr_interactions,
          transfers, commands, clock, inflight>>

store == <<db, calls, call_events, ivr_interactions, transfers>>
sets == <<ROUTED_CALLS, ENDED_CALLS>>

\* ----------------------------------------------------------- responses
\* jsonify({"status": ...}), 200 and its two extended forms.
Ack(status) == [code |-> 200, status |-> status, digit |-> None, event |-> None]
AckDigit(digit) == [code |-> 200, status |-> "gather_processed", digit |-> digit, event |-> None]
AckEvent(etype) == [code |-> 200, status |-> "received", digit |-> None, event |-> etype]
\* An exception that leaves webhook(): the host answers 500 Internal Server Error.
ServerError == [code |-> 500, status |-> None, digit |-> None, event |-> None]

\* --------------------------------------------------------------- store
\* ensure_db(): a missing file is initialised; init_db re-raises its failure,
\* before the file exists (schema unreadable) or after (script failed).
ensure_db(d) ==
    IF d = "absent"
    THEN {[db |-> "ready", raised |-> FALSE],
          [db |-> "absent", raised |-> TRUE],
          [db |-> "broken", raised |-> TRUE]}
    ELSE {[db |-> d, raised |-> FALSE]}

\* One operation of analytics_db: ensure_db() outside the try, then the
\* statements inside it, whose failure is logged and swallowed (ok = FALSE).
\* They succeed on an initialised store and fail on a file without the schema.
StoreOp(d) == {[db |-> e.db, raised |-> e.raised, ok |-> e.db = "ready"] : e \in ensure_db(d)}

\* datetime.utcnow().isoformat() + "Z"
Now == clock

CallRow(r) ==
    [call_control_id |-> r.ccid,
     from_number |-> IF r.from \in {None, ""} THEN "unknown" ELSE r.from,
     to_number |-> IF r.to \in {None, ""} THEN "unknown" ELSE r.to,
     created_at |-> Now]

\* json.dumps(payload_dict) if payload_dict else None, of the event payload.
PayloadJson(r) == [call_control_id |-> r.ccid, from |-> r.from, to |-> r.to, fields |-> r.fields]

\* Rows of the three append-only tables: their ts column is the time of the
\* write, which the order of the rows stands for.
EventRow_Untyped(r, event_type) ==
    [call_control_id |-> r.ccid, event_type |-> "event", payload_json |-> PayloadJson(r)]
EventRow(r, event_type) ==
    [call_control_id |-> r.ccid, event_type |-> event_type, payload_json |-> PayloadJson(r)]

IvrRow(ccid, digit, department) ==
    [call_control_id |-> ccid, digit |-> digit, department |-> department]

TransferRow(ccid, to_sip_uri, status) ==
    [call_control_id |-> ccid, to_sip_uri |-> to_sip_uri, status |-> status]

\* log_ivr_selection and log_transfer validate before they write.
valid_departments == {"sales", "support", "porting"}
valid_statuses == {"success", "error"}

\* SELECT 1 FROM calls WHERE call_control_id = ?
HasCall(ccid) == \E i \in 1..Len(calls) : calls[i].call_control_id = ccid

\* ------------------------------------------------------------ provider
\* One POST to the provider: [op, ccid, to, ok]; ok is the 200 answer.
Command(op, ccid, to, ok) == [op |-> op, ccid |-> ccid, to |-> to, ok |-> ok]

\* ------------------------------------------------------------- handler
\* The frame of a handler: its request, its position, the locals that outlive a
\* step, its response once it returned, and (for the properties) what it has
\* done so far and what the routing sets held for its call id when it started.
TransferFailed(ccid) ==
    /\ \E i \in 1..Len(commands) :
         commands[i].op = "transfer" /\ commands[i].ccid = ccid /\ ~commands[i].ok
    /\ \A i \in 1..Len(commands) :
         commands[i].op = "transfer" /\ commands[i].ccid = ccid => ~commands[i].ok

NewFrame(r, pc, resp) ==
    [req |-> r, pc |-> pc, transfer_success |-> FALSE, resp |-> resp, eff |-> <<>>,
     pre |-> [routed |-> r.ccid \in ROUTED_CALLS, ended |-> r.ccid \in ENDED_CALLS,
              known |-> HasCall(r.ccid), failed |-> TransferFailed(r.ccid)]]

Active == DOMAIN inflight
At(d, pc) == d \in Active /\ inflight[d].pc = pc

Goto(d, pc, tags) == [inflight EXCEPT ![d].pc = pc, ![d].eff = @ \o tags]
Return(d, resp, tags) ==
    [inflight EXCEPT ![d].pc = "done", ![d].resp = resp, ![d].eff = @ \o tags]
\* except Exception: ... return jsonify({"status": "error"}), 200
Caught(d, tags) == Return(d, Ack("error"), tags)

Truth(x) == x \notin {None, ""}

\* What a store write leaves in the handler's record of its own effects.
Wrote(ok, tag) == IF ok THEN <<tag>> ELSE <<"store_error">>

Init ==
    /\ ROUTED_CALLS = {}
    /\ ENDED_CALLS = {}
    /\ db = "absent"
    /\ calls = <<>>
    /\ call_events = <<>>
    /\ ivr_interactions = <<>>
    /\ transfers = <<>>
    /\ commands = <<>>
    /\ clock = 0
    /\ inflight = <<>>

\* The frame of a delivery whose request is parsed and dispatched on its event
\* type (the lines of webhook() before its first read of ccid).
Dispatch(r) ==
    IF r.body = "scalar" \/ r.data = "scalar"
    THEN NewFrame(r, "done", ServerError)
    ELSE IF r.etype \in {"call.initiated", "call.gather.ended", "call.hangup"}
    THEN NewFrame(r, r.etype, None)
    ELSE IF Truth(r.etype)
    THEN NewFrame(r, "other", None)
    ELSE NewFrame(r, "done", AckEvent(r.etype))

\* A delivery arrives once the one before it has been answered; the frame of
\* the answered one is gone.
Deliver ==
    \E r \in Requests :
      /\ clock < MaxDeliveries
      /\ \A d \in Active : inflight[d].pc = "done"
      /\ clock' = clock + 1
      /\ inflight' = (clock + 1 :> Dispatch(r))
      /\ UNCHANGED <<sets, store, commands>>

\* A delivery arrives while others are being handled.
DeliverThreaded ==
    \E r \in ThreadedRequests :
      /\ clock < MaxDeliveries
      /\ clock' = clock + 1
      /\ inflight' = inflight @@ (clock + 1 :> Dispatch(r))
      /\ UNCHANGED <<sets, store, commands>>

\* log_event(ccid, event_type, ev) with outcome o, which did not raise.
log_event_Dropped(o, r, event_type) ==
    /\ db' = o.db
    /\ UNCHANGED <<calls, call_events, ivr_interactions, transfers>>
log_event(o, r, event_type) ==
    /\ db' = o.db
    /\ call_events' = IF o.ok THEN Append(call_events, EventRow(r, event_type)) ELSE call_events
    /\ UNCHANGED <<calls, ivr_interactions, transfers>>

\* ensure_db() raised inside the try of webhook().
Raised(d, o) ==
    /\ db' = o.db
    /\ inflight' = Caught(d, <<"db_raise">>)
    /\ UNCHANGED <<calls, call_events, ivr_interactions, transfers>>

\* ---- call.initiated
\* if cursor.fetchone(): return -- the call is inserted only when it is new.
CallIsNew_Always(ccid) == TRUE
CallIsNew(ccid) == ~HasCall(ccid)

\* ccid is read and checked; save_call_if_new(ccid, from_number, to_number).
Initiated_Save(d) ==
    /\ At(d, "call.initiated")
    /\ LET r == inflight[d].req
       IN  IF r.ev = "scalar"
           THEN inflight' = Caught(d, <<>>) /\ UNCHANGED store
           ELSE IF ~Truth(r.ccid)
           THEN inflight' = Return(d, Ack("missing_call_control_id"), <<>>) /\ UNCHANGED store
           ELSE \E o \in StoreOp(db) :
                  IF o.raised
                  THEN Raised(d, o)
                  ELSE /\ db' = o.db
                       /\ UNCHANGED <<call_events, ivr_interactions, transfers>>
                       /\ IF ~o.ok
                          THEN /\ calls' = calls
                               /\ inflight' = Goto(d, "log_initiated", <<"store_error">>)
                          ELSE IF CallIsNew(r.ccid)
                          THEN /\ calls' = Append(calls, CallRow(r))
                               /\ inflight' = Goto(d, "log_initiated", <<"call_row">>)
                          ELSE /\ calls' = calls
                               /\ inflight' = Goto(d, "log_initiated", <<>>)
    /\ UNCHANGED <<sets, commands, clock>>

Initiated_Log(d) ==
    /\ At(d, "log_initiated")
    /\ \E o \in StoreOp(db) :
         IF o.raised
         THEN Raised(d, o)
         ELSE /\ log_event(o, inflight[d].req, "call.initiated")
              /\ inflight' = Goto(d, "answer", Wrote(o.ok, "event"))
    /\ UNCHANGED <<sets, commands, clock>>

\* if not answer_call(ccid): return answer_failed -- else the menu is started.
AnswerNext_Inverted(ok) == IF ok THEN "return" ELSE "menu"
AnswerNext(ok) == IF ok THEN "menu" ELSE "return"

\* answer_call(ccid): a failed answer ends the delivery.
Initiated_Answer(d) ==
    /\ At(d, "answer")
    /\ \E ok \in BOOLEAN :
         /\ commands' = Append(commands, Command("answer", inflight[d].req.ccid, None, ok))
         /\ inflight' = IF AnswerNext(ok) = "menu"
                        THEN Goto(d, "menu", <<IF ok THEN "answer_ok" ELSE "answer_fail">>)
                        ELSE Return(d, Ack("answer_failed"),
                                    <<IF ok THEN "answer_ok" ELSE "answer_fail">>)
    /\ UNCHANGED <<sets, store, clock>>

\* start_menu returns nothing: its outcome is not looked at.
Initiated_Menu(d) ==
    /\ At(d, "menu")
    /\ \E ok \in BOOLEAN :
         /\ commands' = Append(commands, Command("menu", inflight[d].req.ccid, None, ok))
         /\ inflight' = Return(d, Ack("answered_and_menu_started"),
                               <<IF ok THEN "menu_ok" ELSE "menu_fail">>)
    /\ UNCHANGED <<sets, store, clock>>

\* ---- call.gather.ended
Digit(r) == _extract_digits(r.fields)
Dept(r) == DIGIT_TO_DEPARTMENT(Digit(r))

\* if not ccid or ccid in ROUTED_CALLS or ccid in ENDED_CALLS
GatherIgnored_IdNotChecked(ccid) == ccid \in ROUTED_CALLS \/ ccid \in ENDED_CALLS
GatherIgnored_RoutedOnly(ccid) == ~Truth(ccid) \/ ccid \in ROUTED_CALLS
GatherIgnored_EndedOnly(ccid) == ~Truth(ccid) \/ ccid \in ENDED_CALLS
GatherIgnored(ccid) == ~Truth(ccid) \/ ccid \in ROUTED_CALLS \/ ccid \in ENDED_CALLS

Gather_Guard(d) ==
    /\ At(d, "call.gather.ended")
    /\ LET r == inflight[d].req
       IN  inflight' =
             IF r.ev = "scalar" THEN Caught(d, <<>>)
             ELSE IF GatherIgnored(r.ccid) THEN Return(d, Ack("gather_ignored"), <<>>)
             ELSE Goto(d, "log_gather", <<>>)
    /\ UNCHANGED <<sets, store, commands, clock>>

\* The event is logged; the digit is extracted and mapped to a department.
Gather_Log(d) ==
    /\ At(d, "log_gather")
    /\ LET r == inflight[d].req
       IN  \E o \in StoreOp(db) :
             IF o.raised
             THEN Raised(d, o)
             ELSE /\ log_event(o, r, "call.gather.ended")
                  /\ inflight' = Goto(d, IF Dept(r) # None THEN "ivr" ELSE "replay",
                                      Wrote(o.ok, "event"))
    /\ UNCHANGED <<sets, commands, clock>>

\* log_ivr_selection(ccid, digit, dept)
Gather_Ivr(d) ==
    /\ At(d, "ivr")
    /\ LET r == inflight[d].req
       IN  \E o \in StoreOp(db) :
             IF o.raised
             THEN Raised(d, o)
             ELSE IF Dept(r) \notin valid_departments
             THEN /\ db' = o.db
                  /\ UNCHANGED <<calls, call_events, ivr_interactions, transfers>>
                  /\ inflight' = Goto(d, "transfer", <<>>)
             ELSE /\ db' = o.db
                  /\ ivr_interactions' =
                       IF o.ok THEN Append(ivr_interactions, IvrRow(r.ccid, Digit(r), Dept(r)))
                       ELSE ivr_interactions
                  /\ UNCHANGED <<calls, call_events, transfers>>
                  /\ inflight' = Goto(d, "transfer", Wrote(o.ok, "ivr"))
    /\ UNCHANGED <<sets, commands, clock>>

\* transfer_call(ccid, DEPARTMENT_URIS[dept])
Gather_Transfer(d) ==
    /\ At(d, "transfer")
    /\ LET r == inflight[d].req
       IN  \E ok \in BOOLEAN :
             /\ commands' = Append(commands,
                                   Command("transfer", r.ccid, DEPARTMENT_URIS(Dept(r)), ok))
             /\ inflight' = [Goto(d, "log_transfer",
                                  <<IF ok THEN "transfer_ok" ELSE "transfer_fail">>)
                               EXCEPT ![d].transfer_success = ok]
    /\ UNCHANGED <<sets, store, clock>>

\* if transfer_success: the call id is to be added to ROUTED_CALLS.
RouteNext_Always(transfer_success) == "route"
RouteNext(transfer_success) == IF transfer_success THEN "route" ELSE "return"

\* log_transfer(ccid, to_uri, "success" if transfer_success else "error")
Gather_LogTransfer(d) ==
    /\ At(d, "log_transfer")
    /\ LET r == inflight[d].req
           status == IF inflight[d].transfer_success THEN "success" ELSE "error"
           next(tags) == IF RouteNext(inflight[d].transfer_success) = "route"
                         THEN Goto(d, "route", tags)
                         ELSE Return(d, AckDigit(Digit(r)), tags)
       IN  \E o \in StoreOp(db) :
             IF o.raised
             THEN Raised(d, o)
             ELSE IF status \notin valid_statuses
             THEN /\ db' = o.db
                  /\ UNCHANGED <<calls, call_events, ivr_interactions, transfers>>
                  /\ inflight' = next(<<>>)
             ELSE /\ db' = o.db
                  /\ transfers' =
                       IF o.ok
                       THEN Append(transfers,
                                   TransferRow(r.ccid, DEPARTMENT_URIS(Dept(r)), status))
                       ELSE transfers
                  /\ UNCHANGED <<calls, call_events, ivr_interactions>>
                  /\ inflight' = next(Wrote(o.ok, "transfer_row"))
    /\ UNCHANGED <<sets, commands, clock>>

\* set.add(x): the set with x in it.
add_Replacing(S, x) == {x}
add_Every(S, x) == S \cup CallIds
add(S, x) == S \cup {x}

\* ROUTED_CALLS.add(ccid)
Gather_Route(d) ==
    /\ At(d, "route")
    /\ LET r == inflight[d].req
       IN  /\ ROUTED_CALLS' = add(ROUTED_CALLS, r.ccid)
           /\ inflight' = Return(d, AckDigit(Digit(r)), <<"routed">>)
    /\ UNCHANGED <<ENDED_CALLS, store, commands, clock>>

\* start_menu(ccid)  # replay
Gather_Replay(d) ==
    /\ At(d, "replay")
    /\ LET r == inflight[d].req
       IN  \E ok \in BOOLEAN :
             /\ commands' = Append(commands, Command("menu", r.ccid, None, ok))
             /\ inflight' = Return(d, AckDigit(Digit(r)),
                                   <<IF ok THEN "menu_ok" ELSE "menu_fail">>)
    /\ UNCHANGED <<sets, store, clock>>

\* ---- call.hangup
Hangup_Log(d) ==
    /\ At(d, "call.hangup")
    /\ LET r == inflight[d].req
       IN  IF r.ev = "scalar"
           THEN inflight' = Caught(d, <<>>) /\ UNCHANGED store
           ELSE IF ~Truth(r.ccid)
           THEN inflight' = Return(d, Ack("received"), <<>>) /\ UNCHANGED store
           ELSE \E o \in StoreOp(db) :
                  IF o.raised
                  THEN Raised(d, o)
                  ELSE /\ log_event(o, r, "call.hangup")
                       /\ inflight' = Goto(d, "end", Wrote(o.ok, "event"))
    /\ UNCHANGED <<sets, commands, clock>>

\* ENDED_CALLS.add(ccid)
Hangup_End(d) ==
    /\ At(d, "end")
    /\ ENDED_CALLS' = add(ENDED_CALLS, inflight[d].req.ccid)
    /\ inflight' = Return(d, Ack("received"), <<"ended">>)
    /\ UNCHANGED <<ROUTED_CALLS, store, commands, clock>>

\* ---- any other event type
Other_Log(d) ==
    /\ At(d, "other")
    /\ LET r == inflight[d].req
       IN  IF r.ev = "scalar"
           THEN inflight' = Caught(d, <<>>) /\ UNCHANGED store
           ELSE IF ~Truth(r.ccid)
           THEN inflight' = Return(d, AckEvent(r.etype), <<>>) /\ UNCHANGED store
           ELSE \E o \in StoreOp(db) :
                  IF o.raised
                  THEN Raised(d, o)
                  ELSE /\ log_event(o, r, r.etype)
                       /\ inflight' = Return(d, AckEvent(r.etype), Wrote(o.ok, "event"))
    /\ UNCHANGED <<sets, commands, clock>>

\* ------------------------------------------------------ specifications
HandleInitiated(d) ==
    \/ Initiated_Save(d)
    \/ Initiated_Log(d)
    \/ Initiated_Answer(d)
    \/ Initiated_Menu(d)

HandleGather(d) ==
    \/ Gather_Guard(d)
    \/ Gather_Log(d)
    \/ Gather_Ivr(d)
    \/ Gather_Transfer(d)
    \/ Gather_LogTransfer(d)
    \/ Gather_Route(d)
    \/ Gather_Replay(d)

HandleHangup(d) == Hangup_Log(d) \/ Hangup_End(d)

\* Deliveries handled one after another, over every request shape.
Next ==
    \/ Deliver
    \/ \E d \in 1..MaxDeliveries :
         HandleInitiated(d) \/ HandleGather(d) \/ HandleHangup(d) \/ Other_Log(d)

\* Handlers of call.gather.ended and call.hangup deliveries, interleaved.
NextThreaded ==
    \/ DeliverThreaded
    \/ \E d \in 1..MaxDeliveries : HandleGather(d) \/ HandleHangup(d)

Spec == Init /\ [][Next]_vars

\* One call.gather.ended delivery, of any payload shape, handled from a fresh
\* process: the state after its dispatch.
InitExtract ==
    /\ ROUTED_CALLS = {}
    /\ ENDED_CALLS = {}
    /\ db = "absent"
    /\ calls = <<>>
    /\ call_events = <<>>
    /\ ivr_interactions = <<>>
    /\ transfers = <<>>
    /\ commands = <<>>
    /\ clock = 1
    /\ \E p \in ExtractPayloads :
         inflight = (1 :> [req |-> Event("call.gather.ended", "c1", None, p),
                           pc |-> "call.gather.ended", transfer_success |-> FALSE,
                           resp |-> None, eff |-> <<>>,
                           pre |-> [routed |-> FALSE, ended |-> FALSE,
                                    known |-> FALSE, failed |-> FALSE]])

NextExtract == \E d \in 1..MaxDeliveries : HandleGather(d)

SpecExtract == InitExtract /\ [][NextExtract]_vars

SpecThreaded == Init /\ [][NextThreaded]_vars

\* ---------------------------------------------------------- properties
Done(f) == f.pc = "done"
Has(f, tag) == \E i \in 1..Len(f.eff) : f.eff[i] = tag
NTags(f, tags) == Cardinality({i \in 1..Len(f.eff) : f.eff[i] \in tags})
\* A well-formed delivery of the event type that carries a call id.
Carries(f, etype) == f.req.etype = etype /\ f.req.ev = "object" /\ f.req.ccid \in CallIds
StoreWorked(f) == ~Has(f, "db_raise") /\ ~Has(f, "store_error")

TransferTags == {"transfer_ok", "transfer_fail"}
MenuTags == {"menu_ok", "menu_fail"}
AnswerTags == {"answer_ok", "answer_fail"}
RowTags == {"call_row", "event", "ivr", "transfer_row"}

TransferCommands(c) ==
    {i \in 1..Len(commands) : commands[i].op = "transfer" /\ commands[i].ccid = c}
TransferRows(c) == {i \in 1..Len(transfers) : transfers[i].call_control_id = c}
CallRows(c) == SelectSeq(calls, LAMBDA row : row.call_control_id = c)

\* C1: a call.gather.ended delivery for c that starts once c is in ROUTED_CALLS
\* or ENDED_CALLS never leaves the guard with anything done: it sends no
\* command, writes no row, and its acknowledgement is gather_ignored, whatever
\* digit it carries and whatever the handlers running beside it do.
C1_LateGatherIgnored ==
    \A d \in Active : LET f == inflight[d] IN
      Carries(f, "call.gather.ended") /\ (f.pre.routed \/ f.pre.ended) =>
        /\ f.pc \in {"call.gather.ended", "done"}
        /\ f.eff = <<>>
        /\ Done(f) => f.resp.status = "gather_ignored"

C1_Witness ==
    \E d \in Active : LET f == inflight[d] IN
      /\ Carries(f, "call.gather.ended") /\ Dept(f.req) # None
      /\ f.pre.routed /\ Done(f) /\ f.resp.status = "gather_ignored"

\* C2: under interleaved deliveries at most one transfer command that succeeds
\* is ever issued for a call id.
C2_OneSuccessfulTransferThreaded ==
    \A c \in CallIds : Cardinality({i \in TransferCommands(c) : commands[i].ok}) <= 1

\* C3: a call.initiated delivery for a call id without a Call record, with the
\* store working, leaves exactly one Call record for it and sends exactly one
\* answer command; when the answer succeeded it sends exactly one menu-start
\* command and is acknowledged answered_and_menu_started.
C3_InitiatedOnce ==
    \A d \in Active : LET f == inflight[d] IN
      Carries(f, "call.initiated") /\ ~f.pre.known /\ Done(f) /\ StoreWorked(f) =>
        /\ Len(CallRows(f.req.ccid)) = 1
        /\ NTags(f, AnswerTags) = 1
        /\ Has(f, "answer_ok") =>
             NTags(f, MenuTags) = 1 /\ f.resp.status = "answered_and_menu_started"
        /\ Has(f, "answer_fail") => NTags(f, MenuTags) = 0

C3_Witness ==
    \E d \in Active : LET f == inflight[d] IN
      /\ Carries(f, "call.initiated") /\ ~f.pre.known /\ Done(f) /\ StoreWorked(f)
      /\ Has(f, "call_row") /\ Has(f, "answer_ok")
      /\ f.resp.status = "answered_and_menu_started"

\* C4: with deliveries handled one after another no step leaves two Call
\* records for a call id, and a step taken while a call id has a Call record
\* leaves that record (from_number, to_number, created_at) as it was.
C4_CallRecordOnce ==
    [][\A c \in CallIds :
         /\ Len(CallRows(c)') <= 1
         /\ HasCall(c) => CallRows(c)' = CallRows(c)]_vars

\* A second call.initiated, with another caller number and at a later time, was
\* saved and the record of the first is what the store holds.
C4_Witness ==
    \E d \in Active : LET f == inflight[d] IN
      /\ Carries(f, "call.initiated") /\ f.pre.known /\ f.pc # "call.initiated"
      /\ StoreWorked(f)
      /\ Len(CallRows(f.req.ccid)) = 1
      /\ CallRows(f.req.ccid)[1].from_number # CallRow(f.req).from_number
      /\ CallRows(f.req.ccid)[1].created_at # CallRow(f.req).created_at

\* C5: a call.gather.ended delivery for a call id in neither set attempts one
\* transfer to the department of digit 1, 2 or 3 (sales, support, porting), and
\* for every other digit replays the menu once, attempts no transfer, writes no
\* IvrSelection or Transfer row and changes neither set.
C5_DigitDecides ==
    \A d \in Active : LET f == inflight[d] IN
      Carries(f, "call.gather.ended") /\ ~f.pre.routed /\ ~f.pre.ended /\ Done(f) =>
        LET digit == Digit(f.req)
            uri == CASE digit = <<"1">> -> "sip:agent1@sip.telnyx.com"
                     [] digit = <<"2">> -> "sip:agent2@sip.telnyx.com"
                     [] digit = <<"3">> -> "sip:agent3@sip.telnyx.com"
                     [] OTHER -> None
        IN  IF digit \in {<<"1">>, <<"2">>, <<"3">>}
            THEN /\ digit = <<"1">> => Dept(f.req) = "sales"
                 /\ digit = <<"2">> => Dept(f.req) = "support"
                 /\ digit = <<"3">> => Dept(f.req) = "porting"
                 /\ NTags(f, TransferTags) = 1
                 /\ \E i \in TransferCommands(f.req.ccid) : commands[i].to = uri
            ELSE /\ NTags(f, MenuTags) = 1
                 /\ NTags(f, TransferTags) = 0
                 /\ ~Has(f, "ivr") /\ ~Has(f, "transfer_row")
                 /\ ~Has(f, "routed") /\ ~Has(f, "ended")

\* C6: with deliveries handled one after another, a gather delivery whose
\* transfer succeeded has its call id in ROUTED_CALLS; one whose transfer failed
\* does not add it; and a gather delivery with a valid digit that follows a
\* failed transfer for the call id, with no hangup seen, attempts a transfer
\* and is acknowledged gather_processed.
C6_RouteOnSuccessRetryOnFailure ==
    \A d \in Active : LET f == inflight[d] IN
      Carries(f, "call.gather.ended") =>
        /\ Done(f) /\ Has(f, "transfer_ok") => f.req.ccid \in ROUTED_CALLS
        /\ Has(f, "transfer_fail") =>
             /\ ~Has(f, "routed")
             /\ ~f.pre.routed => f.req.ccid \notin ROUTED_CALLS
        /\ Done(f) /\ f.pre.failed /\ ~f.pre.ended /\ Dept(f.req) # None =>
             /\ NTags(f, TransferTags) = 1
             /\ f.resp.status = "gather_processed"

\* A valid digit redelivered after a failed transfer was transferred.
C6_Witness ==
    \E d \in Active : LET f == inflight[d] IN
      /\ Carries(f, "call.gather.ended") /\ f.pre.failed /\ ~f.pre.ended
      /\ Done(f) /\ Has(f, "transfer_ok") /\ f.resp.status = "gather_processed"
      /\ f.req.ccid \in ROUTED_CALLS

\* C7: every call.hangup delivery that carries a call id leaves it in
\* ENDED_CALLS, whatever its prior state, and leaves it in ROUTED_CALLS when it
\* was there.
C7_HangupEnds ==
    \A d \in Active : LET f == inflight[d] IN
      Carries(f, "call.hangup") /\ Done(f) =>
        /\ f.req.ccid \in ENDED_CALLS
        /\ f.pre.routed => f.req.ccid \in ROUTED_CALLS

\* C8: every delivery, whatever the shape of its body and whatever fails in
\* the store or at the provider, ends in a 200 acknowledgement with a status.
C8_AlwaysAcknowledged ==
    \A d \in Active : LET f == inflight[d] IN
      Done(f) => f.resp.code = 200 /\ f.resp.status # None

\* C9 as claimed: the transfer commands sent for one call id, and its Transfer
\* rows, never exceed one.
C9_OneTransferAttempt ==
    \A c \in CallIds :
      Cardinality(TransferCommands(c)) <= 1 /\ Cardinality(TransferRows(c)) <= 1

\* C9 amended: with deliveries handled one after another, at most one transfer
\* command that succeeds is sent for a call id, at most one Transfer row of it
\* has status success, and no transfer command follows the one that succeeded.
C9_OneSuccessfulTransfer ==
    \A c \in CallIds :
      /\ Cardinality({i \in TransferCommands(c) : commands[i].ok}) <= 1
      /\ Cardinality({i \in TransferRows(c) : transfers[i].status = "success"}) <= 1
      /\ \A i, j \in TransferCommands(c) : commands[i].ok => j <= i

\* A second attempt followed a failed one and succeeded.
C9_Witness ==
    \E c \in CallIds :
      /\ Cardinality(TransferCommands(c)) = 2
      /\ Cardinality({i \in TransferCommands(c) : commands[i].ok}) = 1
      /\ Cardinality(TransferRows(c)) = 2

\* C10 as claimed: no call id is in both ROUTED_CALLS and ENDED_CALLS.
C10_Disjoint == ROUTED_CALLS \cap ENDED_CALLS = {}

\* C10 amended: with deliveries handled one after another, no call id is added
\* to ROUTED_CALLS while it is in ENDED_CALLS; a call id in both sets was routed
\* before its hangup.
C10_NotRoutedAfterEnded ==
    [][\A c \in ENDED_CALLS : c \in ROUTED_CALLS' => c \in ROUTED_CALLS]_vars

\* A valid digit for a call that had hung up and was not routed was handled.
C10_Witness ==
    \E d \in Active : LET f == inflight[d] IN
      /\ Carries(f, "call.gather.ended") /\ Dept(f.req) # None
      /\ f.pre.ended /\ ~f.pre.routed /\ Done(f)
      /\ f.req.ccid \notin ROUTED_CALLS

\* C11: every step of every delivery, of whatever event type, leaves each of
\* ROUTED_CALLS and ENDED_CALLS a superset of what it was: a call id in either
\* set stays there for the life of the process.
C11_SetsOnlyGrow ==
    [][ROUTED_CALLS \subseteq ROUTED_CALLS' /\ ENDED_CALLS \subseteq ENDED_CALLS']_vars

\* A hangup of another call was handled while a call id was routed: both sets
\* hold what they held and what the delivery added.
C11_Witness ==
    \E d \in Active : LET f == inflight[d] IN
      /\ Carries(f, "call.hangup") /\ Done(f) /\ Has(f, "ended")
      /\ ROUTED_CALLS # {} /\ f.req.ccid \notin ROUTED_CALLS

\* A well-formed delivery with a call id and an event type.
Identified(f) == f.req.ev = "object" /\ f.req.ccid \in CallIds /\ Truth(f.req.etype)

\* C12: whatever a store write does (it fails, or the schema cannot be
\* initialised on first use), a delivery with a call id ends as it does with
\* the store working: never with status error; call.initiated has sent its
\* answer command and, the answer succeeding, its menu start; a
\* call.gather.ended past the guard has sent its transfer or its replay and a
\* successful transfer has put the call id in ROUTED_CALLS; call.hangup has put
\* the call id in ENDED_CALLS.
C12_StoreFailureNotPropagated ==
    \A d \in Active : LET f == inflight[d] IN
      Identified(f) /\ Done(f) =>
        /\ f.resp.status # "error"
        /\ Carries(f, "call.initiated") =>
             /\ NTags(f, AnswerTags) = 1
             /\ Has(f, "answer_ok") =>
                  NTags(f, MenuTags) = 1 /\ f.resp.status = "answered_and_menu_started"
        /\ Carries(f, "call.gather.ended") /\ ~f.pre.routed /\ ~f.pre.ended =>
             /\ f.resp.status = "gather_processed"
             /\ NTags(f, TransferTags \cup MenuTags) = 1
             /\ Has(f, "transfer_ok") => f.req.ccid \in ROUTED_CALLS
        /\ Carries(f, "call.hangup") =>
             f.resp.status = "received" /\ f.req.ccid \in ENDED_CALLS

IsPrefix(s, t) == Len(s) <= Len(t) /\ SubSeq(t, 1, Len(s)) = s
EventTags == {"event"}
\* A call.gather.ended delivery that found its call id routed or ended.
GatherWasIgnored(f) == Carries(f, "call.gather.ended") /\ (f.pre.routed \/ f.pre.ended)

\* C13 as claimed: with the store working, every finished delivery that carries
\* a call id and an event type has appended exactly one CallEvent record.
C13_EveryDeliveryLogged ==
    \A d \in Active : LET f == inflight[d] IN
      Identified(f) /\ Done(f) /\ StoreWorked(f) => NTags(f, EventTags) = 1

\* C13 amended: no step modifies or removes a CallEvent record; the records a
\* step appends are those its delivery logged, under the delivery's call id and
\* event type; and with the store working a finished delivery that carries a
\* call id and an event type has logged exactly one, except a
\* call.gather.ended ignored because its call id was routed or ended, which
\* has logged none.
C13_LoggedUnlessIgnored ==
    [][/\ IsPrefix(call_events, call_events')
       /\ \A d \in Active \cap Active' :
            LET f == inflight[d]
                g == inflight'[d]
            IN  /\ Len(call_events') - Len(call_events)
                     = NTags(g, EventTags) - NTags(f, EventTags)
                /\ Len(call_events') > Len(call_events) =>
                     /\ call_events'[Len(call_events')].call_control_id = f.req.ccid
                     /\ call_events'[Len(call_events')].event_type = f.req.etype
                /\ Identified(g) /\ Done(g) /\ StoreWorked(g) =>
                     NTags(g, EventTags) = IF GatherWasIgnored(g) THEN 0 ELSE 1]_vars

\* A repeated call.gather.ended for a routed call was ignored: the store holds
\* the CallEvent of the first delivery and none of the second.
C13_Witness ==
    \E d \in Active : LET f == inflight[d] IN
      /\ GatherWasIgnored(f) /\ Done(f) /\ f.pre.routed
      /\ Len(call_events) = 1 /\ call_events[1].event_type = "call.gather.ended"
      /\ call_events[1].call_control_id = f.req.ccid

AnswerCommands(c) ==
    {i \in 1..Len(commands) : commands[i].op = "answer" /\ commands[i].ccid = c}
\* The commands of the delivery being handled are the last ones sent.
OwnCommands(f) == NTags(f, AnswerTags \cup MenuTags \cup TransferTags)
\* An answer command of an earlier delivery for the call id of f failed.
PriorAnswerFailed(f) ==
    \E i \in AnswerCommands(f.req.ccid) :
      ~commands[i].ok /\ i <= Len(commands) - OwnCommands(f)

\* C14: a call.initiated delivery whose answer command failed is finished with
\* status answer_failed, that failed answer is the last command sent (no menu
\* start), and its call id is in each routing set exactly if it was when the
\* delivery started; a call.initiated delivery for a call id whose earlier
\* answer failed sends one answer command of its own and, that one succeeding,
\* one menu start.
C14_AnswerFailedThenRetried ==
    \A d \in Active : LET f == inflight[d] c == f.req.ccid IN
      Carries(f, "call.initiated") =>
        /\ Has(f, "answer_fail") =>
             /\ Done(f) /\ f.resp.status = "answer_failed"
             /\ NTags(f, MenuTags) = 0
             /\ commands[Len(commands)] = Command("answer", c, None, FALSE)
             /\ (c \in ROUTED_CALLS <=> f.pre.routed) /\ (c \in ENDED_CALLS <=> f.pre.ended)
        /\ Done(f) /\ PriorAnswerFailed(f) =>
             /\ NTags(f, AnswerTags) = 1
             /\ Has(f, "answer_ok") =>
                  /\ NTags(f, MenuTags) = 1
                  /\ commands[Len(commands)].op = "menu" /\ commands[Len(commands)].ccid = c
                  /\ commands[Len(commands) - 1] = Command("answer", c, None, TRUE)

\* The duplicate call.initiated that followed a failed answer answered the call
\* and started the menu.
C14_Witness ==
    \E d \in Active : LET f == inflight[d] IN
      /\ Carries(f, "call.initiated") /\ Done(f) /\ PriorAnswerFailed(f)
      /\ Has(f, "answer_ok") /\ NTags(f, MenuTags) = 1
      /\ Cardinality(AnswerCommands(f.req.ccid)) = 2

\* A well-formed call.initiated, call.gather.ended or call.hangup delivery
\* whose payload has no call id (None or "").
NoCallId(f) ==
    /\ f.req.ev = "object" /\ ~Truth(f.req.ccid)
    /\ f.req.etype \in {"call.initiated", "call.gather.ended", "call.hangup"}
ShortCircuit(etype) ==
    CASE etype = "call.initiated" -> "missing_call_control_id"
      [] etype = "call.gather.ended" -> "gather_ignored"
      [] etype = "call.hangup" -> "received"

\* C15: no step of a call.initiated, call.gather.ended or call.hangup delivery
\* without a call id changes the store, the commands sent or the routing
\* sets, and the delivery finishes with the short-circuit status of its event
\* type with a 200.
C15_NoCallIdNoEffect ==
    [][\A d \in Active \cap Active' :
         LET g == inflight'[d]
         IN  NoCallId(g) =>
               /\ UNCHANGED <<store, commands, sets>>
               /\ g.eff = <<>>
               /\ Done(g) => g.resp = Ack(ShortCircuit(g.req.etype))]_vars

\* After a call was answered, a call.initiated with an empty call id was
\* acknowledged missing_call_control_id.
C15_Witness ==
    \E d \in Active : LET f == inflight[d] IN
      /\ NoCallId(f) /\ Done(f) /\ f.req.ccid = ""
      /\ f.resp.status = "missing_call_control_id"
      /\ Len(commands) > 0 /\ db = "ready"

\* A well-formed delivery whose event type is none of the three handled ones.
OtherEvent(f) ==
    /\ f.req.ev = "object" /\ Truth(f.req.etype)
    /\ f.req.etype \notin {"call.initiated", "call.gather.ended", "call.hangup"}
LastEvent == call_events[Len(call_events)]

\* C16 as claimed: every finished delivery of another event type has logged one
\* CallEvent, and has done nothing else.
C16_OtherAlwaysLogged ==
    \A d \in Active : LET f == inflight[d] IN
      OtherEvent(f) /\ Done(f) => f.eff = <<"event">>

\* C16 amended: a step of a delivery of another event type leaves the calls,
\* ivr_interactions and transfers tables, the commands sent and both routing
\* sets as they were, and leaves call_events as it was or with one record more;
\* when the delivery carries a call id and the store works it finishes with
\* exactly one CallEvent logged, the last one, under its call id and its own
\* event type.
C16_OtherLoggedOnly ==
    [][\A d \in Active \cap Active' :
         LET g == inflight'[d]
         IN  OtherEvent(g) =>
               /\ UNCHANGED <<calls, ivr_interactions, transfers, commands, sets>>
               /\ IsPrefix(call_events, call_events')
               /\ Len(call_events') <= Len(call_events) + 1
               /\ NTags(g, {"call_row", "ivr", "transfer_row", "routed", "ended"}) = 0
               /\ Done(g) /\ Identified(g) /\ StoreWorked(g) =>
                    /\ NTags(g, EventTags) = 1
                    /\ Len(call_events') = Len(call_events) + 1
                    /\ LastEvent'.call_control_id = g.req.ccid
                    /\ LastEvent'.event_type = g.req.etype]_vars

\* A call.answered for a routed call was logged under its own type.
C16_Witness ==
    \E d \in Active : LET f == inflight[d] IN
      /\ OtherEvent(f) /\ Identified(f) /\ Done(f) /\ f.pre.routed
      /\ f.req.ccid \in ROUTED_CALLS
      /\ LastEvent.event_type = "call.answered" /\ LastEvent.call_control_id = f.req.ccid

\* C17: a failed provider command stops its delivery and shows in the
\* acknowledgement: a failed answer gives answer_failed with no menu start, a
\* failed transfer leaves the call id unrouted, and a call.initiated delivery
\* is acknowledged answered_and_menu_started only when its answer command and
\* its menu-start command both succeeded.
C17_FailureSurfaced ==
    \A d \in Active : LET f == inflight[d] IN
      Done(f) =>
        /\ Has(f, "answer_fail") =>
             f.resp.status = "answer_failed" /\ NTags(f, MenuTags) = 0
        /\ Has(f, "transfer_fail") => ~Has(f, "routed")
        /\ Carries(f, "call.initiated") /\ f.resp.status = "answered_and_menu_started" =>
             Has(f, "answer_ok") /\ Has(f, "menu_ok")

MenuCommands(c) ==
    {i \in 1..Len(commands) : commands[i].op = "menu" /\ commands[i].ccid = c}

\* C18: a call id is routed, and a transfer command is sent for it, only after
\* an answer command for it succeeded and a menu-start command for it was
\* sent after that answer: every transfer command of a call id has such an
\* answer and such a menu start before it, and a call id in ROUTED_CALLS has a
\* transfer command.
C18_RoutedAfterMenuPresented ==
    \A c \in CallIds :
      /\ c \in ROUTED_CALLS => TransferCommands(c) # {}
      /\ \A j \in TransferCommands(c) :
           \E i \in AnswerCommands(c), k \in MenuCommands(c) :
             commands[i].ok /\ i < k /\ k < j

\* The trimmed string at a location; "" when no string is there.
Trimmed(v) == IF v.t = "str" THEN Strip(v.s) ELSE EmptyStr
\* The value under a key of a nested field; nothing when the field is no object.
Sub(v, key) == IF v.t = "dict" THEN v[key] ELSE Absent
\* The six locations in their order of priority.
Locations(ev) ==
    <<ev.digit, ev.digits, Sub(ev.result, "digits"), Sub(ev.result, "digit"),
      Sub(ev.dtmf, "digits"), Sub(ev.dtmf, "digit")>>
RECURSIVE FirstNonEmpty(_)
FirstNonEmpty(locs) ==
    IF locs = <<>> THEN EmptyStr
    ELSE IF Trimmed(Head(locs)) # EmptyStr THEN Trimmed(Head(locs))
    ELSE FirstNonEmpty(Tail(locs))

\* C19: the digit a processed call.gather.ended delivery reports is the
\* trimmed string of the first of digit, digits, result.digits, result.digit,
\* dtmf.digits, dtmf.digit that is non-empty once trimmed, and "" when none is.
C19_FirstNonEmptyLocation ==
    \A d \in Active : LET f == inflight[d] IN
      Done(f) /\ f.resp.status = "gather_processed" =>
        f.resp.digit = FirstNonEmpty(Locations(f.req.fields))

\* The fixed table of the menu: digit, department, destination.
Menu ==
    {[digit |-> <<"1">>, department |-> "sales", uri |-> "sip:agent1@sip.telnyx.com"],
     [digit |-> <<"2">>, department |-> "support", uri |-> "sip:agent2@sip.telnyx.com"],
     [digit |-> <<"3">>, department |-> "porting", uri |-> "sip:agent3@sip.telnyx.com"]}
AllTransferCommands == SelectSeq(commands, LAMBDA c : c.op = "transfer")

\* C20: every IvrSelection record holds a digit of the menu and the department
\* the menu gives it; every Transfer record has status success or error, and
\* with deliveries handled one after another the i-th Transfer record belongs
\* to the i-th IvrSelection record (the selection of its delivery): same call
\* id, and the destination the menu gives the selected department; it is also
\* the record of the i-th transfer command sent (same destination, success
\* exactly if the command succeeded).
C20_RecordsWellFormed ==
    /\ \A i \in 1..Len(ivr_interactions) :
         \E m \in Menu : /\ ivr_interactions[i].digit = m.digit
                          /\ ivr_interactions[i].department = m.department
    /\ Len(transfers) <= Len(ivr_interactions)
    /\ \A i \in 1..Len(transfers) :
         /\ transfers[i].status \in {"success", "error"}
         /\ transfers[i].call_control_id = ivr_interactions[i].call_control_id
         /\ \E m \in Menu : /\ m.department = ivr_interactions[i].department
                             /\ m.uri = transfers[i].to_sip_uri
         /\ i <= Len(AllTransferCommands)
         /\ AllTransferCommands[i].to = transfers[i].to_sip_uri
         /\ AllTransferCommands[i].ccid = transfers[i].call_control_id
         /\ AllTransferCommands[i].ok <=> transfers[i].status = "success"

\* A failed transfer to porting and a later successful one were both recorded.
C20_Witness ==
    /\ Len(transfers) = 2 /\ Len(ivr_interactions) = 2
    /\ ivr_interactions[1].digit = <<"3">> /\ ivr_interactions[1].department = "porting"
    /\ transfers[1].status = "error" /\ transfers[1].to_sip_uri = "sip:agent3@sip.telnyx.com"
    /\ transfers[2].status = "success"

\* The delivery whose handler takes the step: every step moves its position.
Stepped(d) == d \in Active \cap Active' /\ inflight'[d].pc # inflight[d].pc
RouteTags == {"routed", "ended"}

\* C21: a step of the delivery carrying call id c adds nothing but c to
\* ROUTED_CALLS and to ENDED_CALLS and leaves every other call id where it was;
\* it changes a set exactly when the delivery records the addition, and a
\* delivery records at most one addition, so it adds to at most one set; a
\* call.gather.ended delivery leaves ENDED_CALLS as it was, a call.hangup
\* delivery leaves ROUTED_CALLS as it was, and a call.initiated delivery leaves
\* both as they were.
C21_PerCallIsolation ==
    [][\A d \in 1..MaxDeliveries :
         Stepped(d) =>
           LET f == inflight[d]
               g == inflight'[d]
               c == g.req.ccid
           IN  /\ ROUTED_CALLS' \in {ROUTED_CALLS, ROUTED_CALLS \cup {c}}
               /\ ENDED_CALLS' \in {ENDED_CALLS, ENDED_CALLS \cup {c}}
               /\ \A o \in CallIds \ {c} :
                    /\ o \in ROUTED_CALLS' <=> o \in ROUTED_CALLS
                    /\ o \in ENDED_CALLS' <=> o \in ENDED_CALLS
               /\ ROUTED_CALLS' # ROUTED_CALLS => NTags(g, {"routed"}) = NTags(f, {"routed"}) + 1
               /\ ENDED_CALLS' # ENDED_CALLS => NTags(g, {"ended"}) = NTags(f, {"ended"}) + 1
               /\ NTags(g, RouteTags) <= 1
               /\ g.req.etype = "call.gather.ended" => ENDED_CALLS' = ENDED_CALLS
               /\ g.req.etype = "call.hangup" => ROUTED_CALLS' = ROUTED_CALLS
               /\ g.req.etype \notin {"call.gather.ended", "call.hangup"} =>
                    UNCHANGED sets]_vars

\* A call.gather.ended for one call was routed while another call had ended:
\* each set holds its own call id only.
C21_Witness ==
    \E d \in Active : LET f == inflight[d] IN
      /\ Carries(f, "call.gather.ended") /\ Done(f) /\ Has(f, "routed")
      /\ ROUTED_CALLS = {f.req.ccid}
      /\ ENDED_CALLS # {} /\ f.req.ccid \notin ENDED_CALLS

\* C22: with the handlers of call.gather.ended and call.hangup deliveries
\* interleaved, no step taken while a call id is in ENDED_CALLS sends a
\* transfer command for it or adds it to ROUTED_CALLS.
C22_NoTransferAfterEndedThreaded ==
    [][\A c \in ENDED_CALLS :
         /\ TransferCommands(c)' = TransferCommands(c)
         /\ c \in ROUTED_CALLS' => c \in ROUTED_CALLS]_vars

====
